---------------------------- MODULE Spec2Model ----------------------------
(***************************************************************************)
(* Crazyflie path follower with obstacle detection.                        *)
(*                                                                         *)
(* Two scripts are modelled side by side, selected by the variable         *)
(* `variant`:                                                              *)
(*   "group3"  src/pathfinder_group3.py  (offset normalisation)            *)
(*   "oran"    src/path_finding_oran.py  (CrazyflieMapCalibrator)          *)
(*                                                                         *)
(* Python floats are modelled as exact rationals <<numerator,denominator>> *)
(* in lowest terms with a positive denominator; int() and round() are      *)
(* modelled by what Python does (truncation toward zero, round half to     *)
(* even).                                                                  *)
(***************************************************************************)
EXTENDS Integers, Sequences, FiniteSets, TLC

(***************************************************************************)
(* Float arithmetic, as exact rationals.                                   *)
(***************************************************************************)
RECURSIVE GCD(_, _)
GCD(a, b) == IF b = 0 THEN a ELSE GCD(b, a % b)

AbsInt(n) == IF n < 0 THEN -n ELSE n

\* n/d in lowest terms, d > 0
Rat(n, d) ==
    LET g == GCD(AbsInt(n), AbsInt(d))
        s == IF d < 0 THEN -1 ELSE 1
    IN  <<(s * n) \div g, (s * d) \div g>>

FromInt(n) == <<n, 1>>
Zero == FromInt(0)

\* a decimal literal with two places, e.g. 0.15 = Dec2(15), -0.31 = Dec2(-31)
Dec2(hundredths) == Rat(hundredths, 100)

RAdd(a, b) == Rat(a[1] * b[2] + b[1] * a[2], a[2] * b[2])
RNeg(a) == <<-a[1], a[2]>>
RSub(a, b) == RAdd(a, RNeg(b))
RMul(a, b) == Rat(a[1] * b[1], a[2] * b[2])
\* b # 0 (Python raises ZeroDivisionError otherwise)
RDiv(a, b) == Rat(a[1] * b[2], a[2] * b[1])
RAbs(a) == <<AbsInt(a[1]), a[2]>>
RLess(a, b) == a[1] * b[2] < b[1] * a[2]

\* Python int(x) of a float: truncation toward zero
PyInt(a) == IF a[1] >= 0 THEN a[1] \div a[2] ELSE -((-a[1]) \div a[2])

\* Python round(x) of a float: nearest integer, ties to the even one
PyRound(a) ==
    LET f == a[1] \div a[2]
        r == a[1] - f * a[2]
    IN  IF 2 * r < a[2] THEN f
        ELSE IF 2 * r > a[2] THEN f + 1
        ELSE IF f % 2 = 0 THEN f ELSE f + 1

\* math.atan2(y, x); only the values calibration data produces are modelled:
\* atan2(0.0, x) is 0.0 for x > 0 and for x = 0.0
Atan2(y, x) == CASE y = Zero /\ ~RLess(x, Zero) -> Zero

\* math.cos / math.sin, for the only angle the calibration produces
Cos(r) == CASE r = Zero -> FromInt(1)
Sin(r) == CASE r = Zero -> Zero

(***************************************************************************)
(* Program constants.                                                      *)
(***************************************************************************)
Variants == {"group3", "oran"}

COLOUR_THRESHOLD(v) == IF v = "group3" THEN 3500 ELSE 2250

\* faulty: five resends per waypoint
SETPOINT_REPEATS_five == 10 \div 2

\* faulty: one retreat setpoint short
RETREAT_REPEATS_short == 30 - 1

SETPOINT_REPEATS == 10
WINDOW_SIZE == 50
RETREAT_REPEATS == 30
initial_yaw == 90

\* faulty: the debounce count of the calibrated script in both scripts
DebounceCount_oran(v) == 45

\* `black >= 40` (group3), `black >= 45` (oran)
DebounceCount(v) == IF v = "group3" THEN 40 ELSE 45

\* z of the retreat setpoint: 0.15 (group3), 0.2 (oran)
RetreatHeight(v) == IF v = "group3" THEN Dec2(15) ELSE Dec2(20)

\* z attached to every compiled waypoint: 0.15 in both scripts
FlightHeight == Dec2(15)

(***************************************************************************)
(* CrazyflieMapCalibrator (oran).                                          *)
(***************************************************************************)
lighthouse_coords(g) ==
    CASE g = <<2, 15>>  -> <<Dec2(-31), Dec2(-18)>>
      [] g = <<2, 2>>   -> <<Dec2(-31), Dec2(112)>>
      [] g = <<15, 2>>  -> <<Dec2(100), Dec2(112)>>
      [] g = <<15, 15>> -> <<Dec2(100), Dec2(-20)>>

\* the corner cells of self.lighthouse_coords
Corners == { <<2, 15>>, <<2, 2>>, <<15, 2>>, <<15, 15>> }

\* self.lighthouse_coords as __init__ sets it
lighthouse_table == [g \in Corners |-> lighthouse_coords(g)]

\* the fields calculate_transformation computes from the table `coords`
Calibration(coords) ==
    LET start_grid == <<2, 15>>
        start_real == coords[<<2, 15>>]
        bottom_left_grid == <<2, 2>>
        bottom_left_real == coords[<<2, 2>>]
        bottom_right_grid == <<15, 2>>
        bottom_right_real == coords[<<15, 2>>]
        grid_y_dist == AbsInt(start_grid[2] - bottom_left_grid[2])
        real_y_dist == RAbs(RSub(start_real[2], bottom_left_real[2]))
        sy == RDiv(real_y_dist, FromInt(grid_y_dist))
        grid_x_dist == AbsInt(bottom_right_grid[1] - bottom_left_grid[1])
        real_x_dist == RAbs(RSub(bottom_right_real[1], bottom_left_real[1]))
        sx == RDiv(real_x_dist, FromInt(grid_x_dist))
    IN  [scale_x  |-> sx,
         scale_y  |-> sy,
         origin_x |-> RSub(start_real[1], RMul(FromInt(start_grid[1]), sx)),
         origin_y |-> RSub(start_real[2], RMul(FromInt(start_grid[2]), sy)),
         rotation |-> RSub(Atan2(RSub(bottom_right_real[2], bottom_left_real[2]),
                                 RSub(bottom_right_real[1], bottom_left_real[1])),
                           Zero)]

calculate_transformation == Calibration(lighthouse_table)

\* the global calibrator instance
calibrator == calculate_transformation

\* the fields of the global CrazyflieMapCalibrator instance: scale_x,
\* scale_y, origin_x, origin_y, rotation
VARIABLE transform

\* crazyflie_to_grid_coords raises ZeroDivisionError (lines 117-118)
CrazyflieToGridRaises(c) == c.scale_x = Zero \/ c.scale_y = Zero

\* grid_x, grid_y, height are rationals; the result is (x, y, z)
grid_to_crazyflie_coords(grid_x, grid_y, height) ==
    LET c == transform
        scaled_x == RMul(grid_x, c.scale_x)
        scaled_y == RMul(grid_y, c.scale_y)
        tilted == RLess(Dec2(1), RAbs(c.rotation))
        rotated_x == IF tilted
                     THEN RSub(RMul(scaled_x, Cos(c.rotation)),
                               RMul(scaled_y, Sin(c.rotation)))
                     ELSE scaled_x
        rotated_y == IF tilted
                     THEN RAdd(RMul(scaled_x, Sin(c.rotation)),
                               RMul(scaled_y, Cos(c.rotation)))
                     ELSE scaled_y
    IN  <<RAdd(rotated_x, c.origin_x), RAdd(rotated_y, c.origin_y), height>>

\* faulty: int() where round() belongs
crazyflie_to_grid_coords_truncating(cf_x, cf_y) ==
    LET c == transform
    IN  <<PyInt(RDiv(RSub(cf_x, c.origin_x), c.scale_x)),
          PyInt(RDiv(RSub(cf_y, c.origin_y), c.scale_y))>>

\* the result is a pair of integers
crazyflie_to_grid_coords(cf_x, cf_y) ==
    LET c == transform
        relative_x == RSub(cf_x, c.origin_x)
        relative_y == RSub(cf_y, c.origin_y)
        tilted == RLess(Dec2(1), RAbs(c.rotation))
        unrotated_x == IF tilted
                       THEN RSub(RMul(relative_x, Cos(RNeg(c.rotation))),
                                 RMul(relative_y, Sin(RNeg(c.rotation))))
                       ELSE relative_x
        unrotated_y == IF tilted
                       THEN RAdd(RMul(relative_x, Sin(RNeg(c.rotation))),
                                 RMul(relative_y, Cos(RNeg(c.rotation))))
                       ELSE relative_y
    IN  <<PyRound(RDiv(unrotated_x, c.scale_x)),
          PyRound(RDiv(unrotated_y, c.scale_y))>>


(***************************************************************************)
(* The planner file path.csv.  A file is [exists, rows]; a row is a        *)
(* sequence of fields; a field is the number its text denotes, or NaN_TEXT *)
(* when the text is not a number.  Integer values are written without a    *)
(* decimal point, so int() accepts exactly the fields with denominator 1.  *)
(***************************************************************************)
NaN_TEXT == <<0, 0>>

\* float(text) raises ValueError
FloatRaises(f) == f[2] = 0

\* int(text) raises ValueError
IntRaises(f) == f[2] # 1

\* `if len(row) >= 2`
UsableRows(file) == SelectSeq(file.rows, LAMBDA row : Len(row) >= 2)

\* the script's conversion of a field raises (float in group3, int in oran)
FieldRaises(v, f) == IF v = "group3" THEN FloatRaises(f) ELSE IntRaises(f)

\* read_all_blocks propagates an exception (only FileNotFoundError is caught)
ReadAllBlocksRaises(v, file) ==
    /\ file.exists
    /\ \E k \in 1..Len(UsableRows(file)) :
          \/ FieldRaises(v, UsableRows(file)[k][1])
          \/ FieldRaises(v, UsableRows(file)[k][2])

\* group3: ((block[0] - offset_x)/10, -(block[1] - offset_y)/10, 0.15)
NormalizeBlock(block, ox, oy) ==
    <<RDiv(RSub(block[1], ox), FromInt(10)),
      RDiv(RNeg(RSub(block[2], oy)), FromInt(10)),
      FlightHeight>>

\* faulty: the last block is not compiled
read_all_blocks_short(v, file) ==
    LET blocks == IF file.exists THEN UsableRows(file) ELSE <<>>
    IN  IF v = "group3"
        THEN [k \in 1..(Len(blocks) - 1) |->
                 NormalizeBlock(blocks[k], blocks[1][1], blocks[1][2])]
        ELSE [k \in 1..(Len(blocks) - 1) |->
                 grid_to_crazyflie_coords(blocks[k][1], blocks[k][2], FlightHeight)]

\* the value read_all_blocks returns (when it does not raise)
read_all_blocks(v, file) ==
    LET blocks == IF file.exists THEN UsableRows(file) ELSE <<>>
    IN  IF v = "group3"
        THEN [k \in 1..Len(blocks) |->
                 NormalizeBlock(blocks[k], blocks[1][1], blocks[1][2])]
        ELSE [k \in 1..Len(blocks) |->
                 grid_to_crazyflie_coords(blocks[k][1], blocks[k][2], FlightHeight)]

\* the global offsets after read_all_blocks; group3 sets them to blocks[0]
OffsetsAfterRead(v, file, old) ==
    IF v = "group3" /\ file.exists /\ Len(UsableRows(file)) > 0
    THEN <<UsableRows(file)[1][1], UsableRows(file)[1][2]>>
    ELSE old

\* read_path_waypoints propagates an exception: both scripts convert the
\* fields with float() here, and only FileNotFoundError is caught
ReadPathWaypointsRaises(file) ==
    /\ file.exists
    /\ \E k \in 1..Len(UsableRows(file)) :
          \/ FloatRaises(UsableRows(file)[k][1])
          \/ FloatRaises(UsableRows(file)[k][2])

\* prev_dir, next_dir of the interior point k
Direction(points, k) ==
    <<RSub(points[k][1], points[k - 1][1]), RSub(points[k][2], points[k - 1][2])>>

\* faulty: an interior point is dropped whenever it lies on the line through
\* its neighbours, whatever the step lengths
CornerPoints_colinear(points) ==
    LET indices == [k \in 1..Len(points) |-> k]
        cross(a, b) == RSub(RMul(a[1], b[2]), RMul(a[2], b[1]))
        kept == SelectSeq(indices,
                          LAMBDA k : \/ k = 1
                                     \/ k = Len(points)
                                     \/ cross(Direction(points, k),
                                              Direction(points, k + 1)) # Zero)
    IN  [n \in 1..Len(kept) |-> points[kept[n]]]

\* faulty: the last point is not appended
CornerPoints_no_last(points) ==
    LET indices == [k \in 1..Len(points) |-> k]
        kept == SelectSeq(indices,
                          LAMBDA k : \/ k = 1
                                     \/ /\ k < Len(points)
                                        /\ Direction(points, k) # Direction(points, k + 1))
    IN  [n \in 1..Len(kept) |-> points[kept[n]]]

\* the list `waypoints` for len(points) >= 2: points[0], the interior
\* points with prev_dir != next_dir, points[-1]
CornerPoints(points) ==
    LET indices == [k \in 1..Len(points) |-> k]
        kept == SelectSeq(indices,
                          LAMBDA k : \/ k = 1
                                     \/ k = Len(points)
                                     \/ Direction(points, k) # Direction(points, k + 1))
    IN  [n \in 1..Len(kept) |-> points[kept[n]]]

\* the value read_path_waypoints returns (when it does not raise)
read_path_waypoints(file) ==
    LET points == IF file.exists THEN UsableRows(file) ELSE <<>>
        waypoints == CornerPoints(points)
    IN  IF Len(points) < 2
        THEN points
        ELSE [n \in 1..Len(waypoints) |->
                 NormalizeBlock(waypoints[n], waypoints[1][1], waypoints[1][2])]

\* the global offsets after read_path_waypoints: waypoints[0] when the file
\* has two points or more
OffsetsAfterWaypoints(file, old) ==
    IF file.exists /\ Len(UsableRows(file)) >= 2
    THEN <<UsableRows(file)[1][1], UsableRows(file)[1][2]>>
    ELSE old

\* faulty: the sign of y is not reversed on the way back
ObstacleRow_y_not_negated(v, obstacle_position, offs) ==
    IF v = "group3"
    THEN <<PyInt(RAdd(RMul(obstacle_position[1], FromInt(10)), offs[1])),
           PyInt(RAdd(RMul(obstacle_position[2], FromInt(10)), offs[2]))>>
    ELSE crazyflie_to_grid_coords(obstacle_position[1], obstacle_position[2])

\* the row update_csv writes for obstacle_position
ObstacleRow(v, obstacle_position, offs) ==
    IF v = "group3"
    THEN <<PyInt(RAdd(RMul(obstacle_position[1], FromInt(10)), offs[1])),
           PyInt(RAdd(RMul(RNeg(obstacle_position[2]), FromInt(10)), offs[2]))>>
    ELSE crazyflie_to_grid_coords(obstacle_position[1], obstacle_position[2])

\* faulty: a reading equal to the threshold counts as positive
over_obstacle_inclusive(v, shutter) == shutter >= COLOUR_THRESHOLD(v)

\* shutter_num > COLOUR_THRESHOLD
over_obstacle(v, shutter) == shutter > COLOUR_THRESHOLD(v)

\* faulty: the first waypoint is not exempt
IsDetection_no_exemption(v, black_count, index) ==
    black_count >= DebounceCount(v)

\* `if black >= 40 and i != 0`
IsDetection(v, black_count, index) ==
    black_count >= DebounceCount(v) /\ index # 0

(***************************************************************************)
(* State.                                                                  *)
(***************************************************************************)
VARIABLES
    variant,            \* which script runs
    skip_blocks,        \* global: read waypoints instead of all blocks
    link_up,            \* the radio link carries the commands of the script
    path_csv,           \* the planner file
    feed,               \* the records the telemetry port can deliver
    obstacles_csv,      \* rows of obstacles.csv
    write_ok,           \* whether the last open/write of obstacles.csv succeeded
    estimated_position, \* global, written by log_stab_callback
    shutter_num,        \* global, written by log_stab_callback
    initial_position,   \* global, written by set_initial_position
    offsets,            \* globals offset_x, offset_y
    pc,                 \* position of the main thread
    args,               \* argument values evaluated so far for the next call
    sequence,           \* run_sequence: the waypoint sequence
    base,               \* run_sequence: base_x, base_y, base_z
    i,                  \* run_sequence: index of the current waypoint
    j,                  \* run_sequence: inner loop counter
    target,             \* run_sequence: x, y, z of the current waypoint
    black,              \* run_sequence: positive samples of the window
    obstacle_detected,  \* run_sequence: the stop flag
    cb_pc,              \* position of log_stab_callback in the telemetry thread
    cb_data,            \* the record log_stab_callback is handling
    cmds,               \* history: commands sent to the vehicle, in order
    nreads,             \* history: sensor reads of this run so far
    positive_seen,      \* history: a window at an index > 0 reached the
                        \*          debounce count
    grid_point,         \* calibrator exercise: a grid point and a height
    cf_point,           \* calibrator exercise: its lighthouse coordinates
    grid_result,        \* calibrator exercise: the grid cell mapped back
    rotated_sequence,   \* rotation exercise: the sequence the last call returned
    turns               \* rotation exercise: the functions called so far

vars == <<variant, skip_blocks, link_up, transform, path_csv, feed, obstacles_csv, write_ok, estimated_position,
          shutter_num, initial_position, offsets, pc, args, sequence, base,
          i, j, target, black, obstacle_detected, cb_pc, cb_data, cmds, nreads,
          positive_seen, grid_point, cf_point, grid_result,
          rotated_sequence, turns>>

calib_vars == <<grid_point, cf_point, grid_result>>
rotate_vars == <<rotated_sequence, turns>>
env_vars == <<variant, skip_blocks, link_up, transform, path_csv, feed,
              calib_vars, rotate_vars>>
telemetry_vars == <<estimated_position, shutter_num, cb_pc, cb_data>>
loop_vars == <<sequence, base, i, j, target, black, obstacle_detected>>

(***************************************************************************)
(* Inputs.                                                                 *)
(***************************************************************************)
MaxRows == 3

\* the planned path: the reference cells, then further cells along the edge
PlannerRow(k) ==
    CASE k = 1 -> <<FromInt(2), FromInt(15)>>
      [] k = 2 -> <<FromInt(8), FromInt(2)>>
      [] k = 3 -> <<FromInt(15), FromInt(2)>>
      [] OTHER -> <<FromInt(15), FromInt(2 + k)>>

PlannerPrefix(n) == [exists |-> TRUE, rows |-> [k \in 1..n |-> PlannerRow(k)]]

MissingFile == [exists |-> FALSE, rows |-> <<>>]

\* a short row, then a cell with a fractional coordinate
FractionalFile ==
    [exists |-> TRUE,
     rows |-> <<PlannerRow(1), <<FromInt(9)>>, <<Rat(17, 2), FromInt(2)>>>>]

PlannerFiles ==
    {MissingFile, FractionalFile} \cup {PlannerPrefix(n) : n \in 0..MaxRows}

ZeroPosition == <<Zero, Zero, Zero>>
PositionA == <<FromInt(1), FromInt(2), FromInt(3)>>
PositionB == <<FromInt(4), FromInt(5), FromInt(6)>>
PositionC == <<FromInt(1), Zero, Zero>>

\* a telemetry record: stateEstimate.x/y/z and motion.shutter
Record(p, s) == [x |-> p[1], y |-> p[2], z |-> p[3], shutter |-> s]

NoData == Record(ZeroPosition, 0)

\* the calibrator exercise is not running
NoPoint == ZeroPosition

\* Each scenario bounds what the environment supplies in one execution:
\*   flight:  the estimator rests at the origin, the shutter reading varies
\*            around the threshold, any planner file;
\*   moving:  the estimate moves between two positions over a dark floor,
\*            no planner file.
Scenarios ==
    { [positions |-> {ZeroPosition}, levels |-> {0, 1}, files |-> PlannerFiles],
      [positions |-> {PositionA, PositionB}, levels |-> {1},
       files |-> {MissingFile}] }

\* The vehicle placed away from the origin of the estimator:
\*   placed:  the estimate settles one metre from the origin along x over
\*            a dark floor, a planner file of two cells;
\*   resting: the estimate rests at the origin over a dark floor, the
\*            planner file with a short row and a fractional cell.
PlacedScenarios ==
    { [positions |-> {PositionC}, levels |-> {1}, files |-> {PlannerPrefix(2)}],
      [positions |-> {ZeroPosition}, levels |-> {1}, files |-> {FractionalFile}] }

Feed(v, sc) ==
    { Record(p, COLOUR_THRESHOLD(v) + l) : p \in sc.positions, l \in sc.levels }

(***************************************************************************)
(* Init: the globals as the module sets them, the main thread at the       *)
(* sleep after simple_log_async, logging started.                          *)
(***************************************************************************)
InitFor(scenarios) ==
    /\ variant \in Variants
    /\ skip_blocks = FALSE
    /\ link_up = TRUE
    /\ transform = calibrator
    /\ \E sc \in scenarios :
          /\ path_csv \in sc.files
          /\ feed = Feed(variant, sc)
    /\ obstacles_csv = <<>>
    /\ write_ok = TRUE
    /\ estimated_position = ZeroPosition
    /\ shutter_num = 0
    /\ initial_position = ZeroPosition
    /\ offsets = <<Zero, Zero>>
    /\ pc = "init_args"
    /\ args = <<>>
    /\ sequence = <<>>
    /\ base = ZeroPosition
    /\ i = 0
    /\ j = 0
    /\ target = ZeroPosition
    /\ black = 0
    /\ obstacle_detected = FALSE
    /\ cb_pc = "idle"
    /\ cb_data = NoData
    /\ cmds = <<>>
    /\ nreads = 0
    /\ positive_seen = FALSE
    /\ grid_point = NoPoint
    /\ cf_point = NoPoint
    /\ grid_result = <<0, 0>>
    /\ rotated_sequence = <<>>
    /\ turns = <<>>

Init == InitFor(Scenarios)

InitPlaced == InitFor(PlacedScenarios)

(***************************************************************************)
(* Telemetry thread: log_stab_callback, one statement per step.            *)
(***************************************************************************)
LinkOpen == pc \notin {"returned", "crashed", "link_lost"}

CallbackX ==
    /\ cb_pc = "idle"
    /\ LinkOpen
    /\ \E data \in feed :
          /\ cb_data' = data
          /\ estimated_position' = [estimated_position EXCEPT ![1] = data.x]
    /\ cb_pc' = "y"
    /\ UNCHANGED <<env_vars, positive_seen, obstacles_csv, write_ok, shutter_num,
                   initial_position, offsets, pc, args, loop_vars, cmds, nreads>>

CallbackY ==
    /\ cb_pc = "y"
    /\ estimated_position' = [estimated_position EXCEPT ![2] = cb_data.y]
    /\ cb_pc' = "z"
    /\ UNCHANGED <<env_vars, positive_seen, obstacles_csv, write_ok, shutter_num, cb_data,
                   initial_position, offsets, pc, args, loop_vars, cmds, nreads>>

CallbackZ ==
    /\ cb_pc = "z"
    /\ estimated_position' = [estimated_position EXCEPT ![3] = cb_data.z]
    /\ cb_pc' = "shutter"
    /\ UNCHANGED <<env_vars, positive_seen, obstacles_csv, write_ok, shutter_num, cb_data,
                   initial_position, offsets, pc, args, loop_vars, cmds, nreads>>

CallbackShutter ==
    /\ cb_pc = "shutter"
    /\ shutter_num' = cb_data.shutter
    /\ cb_pc' = "idle"
    /\ cb_data' = NoData
    /\ UNCHANGED <<env_vars, positive_seen, obstacles_csv, write_ok, estimated_position,
                   initial_position, offsets, pc, args, loop_vars, cmds, nreads>>

(***************************************************************************)
(* Main thread: __main__ up to the call of run_sequence.                   *)
(***************************************************************************)
\* one argument expression estimated_position[k] is evaluated
EvalArg(at) ==
    /\ pc = at
    /\ Len(args) < 3
    /\ args' = Append(args, estimated_position[Len(args) + 1])
    /\ UNCHANGED <<env_vars, positive_seen, obstacles_csv, write_ok, telemetry_vars,
                   initial_position, offsets, pc, loop_vars, cmds, nreads>>

EvalInitArg == EvalArg("init_args")

set_initial_position ==
    /\ pc = "init_args"
    /\ Len(args) = 3
    /\ initial_position' = args
    /\ args' = <<>>
    /\ pc' = "read_path"
    /\ UNCHANGED <<env_vars, positive_seen, obstacles_csv, write_ok, telemetry_vars, offsets,
                   loop_vars, cmds, nreads>>

\* skip_blocks is False: sequence = read_all_blocks('path.csv')
ReadPath ==
    /\ pc = "read_path"
    /\ ~skip_blocks
    /\ ~ReadAllBlocksRaises(variant, path_csv)
    /\ sequence' = read_all_blocks(variant, path_csv)
    /\ offsets' = OffsetsAfterRead(variant, path_csv, offsets)
    /\ pc' = "base_args"
    /\ UNCHANGED <<env_vars, positive_seen, obstacles_csv, write_ok, telemetry_vars,
                   initial_position, args, base, i, j, target, black,
                   obstacle_detected, cmds, nreads>>

\* the ValueError of float()/int() leaves __main__: the program ends
ReadPathRaises ==
    /\ pc = "read_path"
    /\ ~skip_blocks
    /\ ReadAllBlocksRaises(variant, path_csv)
    /\ pc' = "crashed"
    /\ UNCHANGED <<env_vars, positive_seen, obstacles_csv, write_ok, telemetry_vars,
                   initial_position, offsets, args, loop_vars, cmds, nreads>>

EvalBaseArg == EvalArg("base_args")

CallRunSequence ==
    /\ pc = "base_args"
    /\ Len(args) = 3
    /\ base' = args
    /\ args' = <<>>
    /\ obstacle_detected' = FALSE
    /\ pc' = "arm"
    /\ UNCHANGED <<env_vars, positive_seen, obstacles_csv, write_ok, telemetry_vars,
                   initial_position, offsets, sequence, i, j, target, black,
                   cmds, nreads>>

(***************************************************************************)
(* Main thread: run_sequence.                                              *)
(*                                                                         *)
(* A command of the history is [op, x, y, z, yaw, wp, reads]: op is "arm", *)
(* "setpoint", "stop" or "notify"; x, y, z, yaw are the arguments of a     *)
(* setpoint; wp and reads are history only: the index of the waypoint the  *)
(* setpoint flies to (-1 for a retreat setpoint) and the number of sensor  *)
(* reads made before the command.                                          *)
(***************************************************************************)
\* the wp tag of a command that flies to no waypoint
RETREAT == 0 - 1

Command(op, p, wp) ==
    [op |-> op, x |-> p[1], y |-> p[2], z |-> p[3], yaw |-> initial_yaw,
     wp |-> wp, reads |-> nreads]

\* faulty: the arming request is left out
Arm_omitted ==
    /\ pc = "arm"
    /\ i' = 0
    /\ pc' = "loop"
    /\ UNCHANGED <<env_vars, positive_seen, obstacles_csv, write_ok,
                   telemetry_vars, initial_position, offsets, args, sequence,
                   base, j, target, black, obstacle_detected, cmds, nreads>>

\* cf.platform.send_arming_request(True)
Arm ==
    /\ pc = "arm"
    /\ cmds' = Append(cmds, Command("arm", ZeroPosition, RETREAT))
    /\ i' = 0
    /\ pc' = "loop"
    /\ UNCHANGED <<env_vars, positive_seen, obstacles_csv, write_ok, telemetry_vars,
                   initial_position, offsets, args, sequence, base, j, target,
                   black, obstacle_detected, nreads>>

\* faulty: the base position is not added
LoopNext_untranslated ==
    /\ pc = "loop"
    /\ i < Len(sequence)
    /\ target' = sequence[i + 1]
    /\ j' = 0
    /\ pc' = "setpoint"
    /\ UNCHANGED <<env_vars, positive_seen, obstacles_csv, write_ok,
                   telemetry_vars, initial_position, offsets, args, sequence,
                   base, i, black, obstacle_detected, cmds, nreads>>

\* `for i, position in enumerate(sequence)`: the next waypoint, x, y, z
LoopNext ==
    /\ pc = "loop"
    /\ i < Len(sequence)
    /\ Len(sequence[i + 1]) >= 3
    /\ target' = <<RAdd(sequence[i + 1][1], base[1]),
                   RAdd(sequence[i + 1][2], base[2]),
                   RAdd(sequence[i + 1][3], base[3])>>
    /\ j' = 0
    /\ pc' = "setpoint"
    /\ UNCHANGED <<env_vars, positive_seen, obstacles_csv, write_ok, telemetry_vars,
                   initial_position, offsets, args, sequence, base, i, black,
                   obstacle_detected, cmds, nreads>>

\* `z = position[2] + base_z` on a point of two components: the IndexError
\* leaves run_sequence and __main__
LoopNextRaises ==
    /\ pc = "loop"
    /\ i < Len(sequence)
    /\ Len(sequence[i + 1]) < 3
    /\ pc' = "crashed"
    /\ UNCHANGED <<env_vars, positive_seen, obstacles_csv, write_ok,
                   telemetry_vars, initial_position, offsets, args, loop_vars,
                   cmds, nreads>>

\* faulty: the loop may end one waypoint early
LoopEnd_early ==
    /\ pc = "loop"
    /\ i >= Len(sequence) - 1
    /\ pc' = "stop"
    /\ UNCHANGED <<env_vars, positive_seen, obstacles_csv, write_ok,
                   telemetry_vars, initial_position, offsets, args, loop_vars,
                   cmds, nreads>>

\* the sequence is exhausted
LoopEnd ==
    /\ pc = "loop"
    /\ i >= Len(sequence)
    /\ pc' = "stop"
    /\ UNCHANGED <<env_vars, positive_seen, obstacles_csv, write_ok, telemetry_vars,
                   initial_position, offsets, args, loop_vars, cmds, nreads>>

\* faulty: every setpoint adds the position estimate of the moment
SendSetpoint_live ==
    /\ pc = "setpoint"
    /\ j < SETPOINT_REPEATS
    /\ cmds' = Append(cmds,
                  Command("setpoint",
                          <<RAdd(sequence[i + 1][1], estimated_position[1]),
                            RAdd(sequence[i + 1][2], estimated_position[2]),
                            RAdd(sequence[i + 1][3], estimated_position[3])>>,
                          i))
    /\ j' = j + 1
    /\ UNCHANGED <<env_vars, positive_seen, obstacles_csv, write_ok,
                   telemetry_vars, initial_position, offsets, pc, args,
                   sequence, base, i, target, black, obstacle_detected, nreads>>

\* `for j in range(10): cf.commander.send_position_setpoint(x, y, z, yaw)`
SendSetpoint ==
    /\ pc = "setpoint"
    /\ j < SETPOINT_REPEATS
    /\ cmds' = Append(cmds, Command("setpoint", target, i))
    /\ j' = j + 1
    /\ UNCHANGED <<env_vars, positive_seen, obstacles_csv, write_ok, telemetry_vars,
                   initial_position, offsets, pc, args, sequence, base, i,
                   target, black, obstacle_detected, nreads>>

\* `black = 0`
StartWindow ==
    /\ pc = "setpoint"
    /\ j >= SETPOINT_REPEATS
    /\ black' = 0
    /\ j' = 0
    /\ pc' = "sample"
    /\ UNCHANGED <<env_vars, positive_seen, obstacles_csv, write_ok, telemetry_vars,
                   initial_position, offsets, args, sequence, base, i, target,
                   obstacle_detected, cmds, nreads>>

\* faulty: over_obstacle clears the reading it has used
Sample_consuming ==
    /\ pc = "sample"
    /\ j < WINDOW_SIZE
    /\ black' = IF over_obstacle(variant, shutter_num) THEN black + 1 ELSE black
    /\ shutter_num' = 0
    /\ j' = j + 1
    /\ nreads' = nreads + 1
    /\ UNCHANGED <<env_vars, positive_seen, obstacles_csv, write_ok,
                   estimated_position, cb_pc, cb_data, initial_position,
                   offsets, pc, args, sequence, base, i, target,
                   obstacle_detected, cmds>>

\* `for j in range(50): if over_obstacle(): black = black + 1`
Sample ==
    /\ pc = "sample"
    /\ j < WINDOW_SIZE
    /\ black' = IF over_obstacle(variant, shutter_num) THEN black + 1 ELSE black
    /\ j' = j + 1
    /\ nreads' = nreads + 1
    /\ UNCHANGED <<env_vars, positive_seen, obstacles_csv, write_ok, telemetry_vars,
                   initial_position, offsets, pc, args, sequence, base, i,
                   target, obstacle_detected, cmds>>

\* `if black >= 40 and i != 0:`
Decide ==
    /\ pc = "sample"
    /\ j >= WINDOW_SIZE
    /\ IF IsDetection(variant, black, i)
       THEN pc' = "retreat" /\ j' = 0
       ELSE pc' = "break" /\ j' = j
    /\ positive_seen' = (positive_seen \/ (i > 0 /\ black >= DebounceCount(variant)))
    /\ UNCHANGED <<env_vars, obstacles_csv, write_ok, telemetry_vars,
                   initial_position, offsets, args, sequence, base, i, target,
                   black, obstacle_detected, cmds, nreads>>

\* `for j in range(30): send_position_setpoint(initial_position[0],
\*                                             initial_position[1], 0.15, yaw)`
Retreat ==
    /\ pc = "retreat"
    /\ j < RETREAT_REPEATS
    /\ cmds' = Append(cmds,
                  Command("setpoint",
                          <<initial_position[1], initial_position[2],
                            RetreatHeight(variant)>>,
                          RETREAT))
    /\ j' = j + 1
    /\ UNCHANGED <<env_vars, positive_seen, obstacles_csv, write_ok, telemetry_vars,
                   initial_position, offsets, pc, args, sequence, base, i,
                   target, black, obstacle_detected, nreads>>

\* `obstacle_detected = True`
SetFlag ==
    /\ pc = "retreat"
    /\ j >= RETREAT_REPEATS
    /\ obstacle_detected' = TRUE
    /\ pc' = "update_csv"
    /\ UNCHANGED <<env_vars, positive_seen, obstacles_csv, write_ok, telemetry_vars,
                   initial_position, offsets, args, sequence, base, i, j,
                   target, black, cmds, nreads>>

\* faulty: the exception of open/write is not caught
update_csv_fatal ==
    /\ pc = "update_csv"
    /\ \E ok \in BOOLEAN :
          /\ write_ok' = ok
          /\ obstacles_csv' =
                IF ok
                THEN Append(obstacles_csv,
                            ObstacleRow(variant, sequence[i + 1], offsets))
                ELSE obstacles_csv
          /\ pc' = IF ok THEN "break" ELSE "crashed"
    /\ UNCHANGED <<env_vars, positive_seen, telemetry_vars, initial_position,
                   offsets, args, loop_vars, cmds, nreads>>

\* faulty: obstacles.csv is opened with mode 'w'
update_csv_truncating ==
    /\ pc = "update_csv"
    /\ \E ok \in BOOLEAN :
          /\ write_ok' = ok
          /\ obstacles_csv' =
                IF ok
                THEN <<ObstacleRow(variant, sequence[i + 1], offsets)>>
                ELSE obstacles_csv
    /\ pc' = "break"
    /\ UNCHANGED <<env_vars, positive_seen, telemetry_vars, initial_position,
                   offsets, args, loop_vars, cmds, nreads>>

\* update_csv(position): the row is appended, or open/write raises and the
\* exception is caught and printed
update_csv ==
    /\ pc = "update_csv"
    /\ \E ok \in BOOLEAN :
          /\ write_ok' = ok
          /\ obstacles_csv' =
                IF ok
                THEN Append(obstacles_csv,
                            ObstacleRow(variant, sequence[i + 1], offsets))
                ELSE obstacles_csv
    /\ pc' = "break"
    /\ UNCHANGED <<env_vars, positive_seen, telemetry_vars, initial_position, offsets, args,
                   loop_vars, cmds, nreads>>

\* faulty: the break is missing, the for statement advances
Break_continues ==
    /\ pc = "break"
    /\ obstacle_detected
    /\ i' = i + 1
    /\ pc' = "loop"
    /\ UNCHANGED <<env_vars, positive_seen, obstacles_csv, write_ok,
                   telemetry_vars, initial_position, offsets, args, sequence,
                   base, j, target, black, obstacle_detected, cmds, nreads>>

\* `if obstacle_detected: break`
Break ==
    /\ pc = "break"
    /\ obstacle_detected
    /\ pc' = "stop"
    /\ UNCHANGED <<env_vars, positive_seen, obstacles_csv, write_ok, telemetry_vars,
                   initial_position, offsets, args, loop_vars, cmds, nreads>>

\* no break: the for statement advances
Continue ==
    /\ pc = "break"
    /\ ~obstacle_detected
    /\ i' = i + 1
    /\ pc' = "loop"
    /\ UNCHANGED <<env_vars, positive_seen, obstacles_csv, write_ok, telemetry_vars,
                   initial_position, offsets, args, sequence, base, j, target,
                   black, obstacle_detected, cmds, nreads>>

\* cf.commander.send_stop_setpoint()
StopSetpoint ==
    /\ pc = "stop"
    /\ cmds' = Append(cmds, Command("stop", ZeroPosition, RETREAT))
    /\ pc' = "notify"
    /\ UNCHANGED <<env_vars, positive_seen, obstacles_csv, write_ok, telemetry_vars,
                   initial_position, offsets, args, loop_vars, nreads>>

\* faulty: the notification is left out
NotifySetpointStop_omitted ==
    /\ pc = "notify"
    /\ pc' = "returned"
    /\ UNCHANGED <<env_vars, positive_seen, obstacles_csv, write_ok,
                   telemetry_vars, initial_position, offsets, args, loop_vars,
                   cmds, nreads>>

\* cf.commander.send_notify_setpoint_stop(), the drain delay, return
NotifySetpointStop ==
    /\ pc = "notify"
    /\ cmds' = Append(cmds, Command("notify", ZeroPosition, RETREAT))
    /\ pc' = "returned"
    /\ UNCHANGED <<env_vars, positive_seen, obstacles_csv, write_ok, telemetry_vars,
                   initial_position, offsets, args, loop_vars, nreads>>

(***************************************************************************)
(* Specification.                                                          *)
(***************************************************************************)
Telemetry == CallbackX \/ CallbackY \/ CallbackZ \/ CallbackShutter

Main ==
    \/ EvalInitArg \/ set_initial_position \/ ReadPath \/ ReadPathRaises
    \/ EvalBaseArg \/ CallRunSequence \/ Arm \/ LoopNext \/ LoopEnd
    \/ SendSetpoint \/ StartWindow \/ Sample \/ Decide \/ Retreat \/ SetFlag
    \/ update_csv \/ Break \/ Continue \/ StopSetpoint \/ NotifySetpointStop

Next == Telemetry \/ Main

Spec == Init /\ [][Next]_vars

\* the same program, the vehicle placed away from the estimator's origin
SpecPlaced == InitPlaced /\ [][Next]_vars

(***************************************************************************)
(* The same program over a radio link that can fail: a call of             *)
(* send_arming_request, send_position_setpoint, send_stop_setpoint or      *)
(* send_notify_setpoint_stop fails by raising.  run_sequence and __main__  *)
(* have no try statement around these calls, so the exception leaves       *)
(* run_sequence, the with statement and the program.                       *)
(***************************************************************************)
\* the main thread is about to call a method of cf.platform / cf.commander
CommandPending ==
    \/ pc \in {"arm", "stop", "notify"}
    \/ pc = "setpoint" /\ j < SETPOINT_REPEATS
    \/ pc = "retreat" /\ j < RETREAT_REPEATS

\* faulty: the exception is swallowed and the run goes on
CommandFails_swallowed ==
    /\ link_up
    /\ CommandPending
    /\ link_up' = FALSE
    /\ UNCHANGED <<variant, skip_blocks, transform, path_csv, feed, rotate_vars, calib_vars,
                   positive_seen, obstacles_csv, write_ok, telemetry_vars,
                   initial_position, offsets, pc, args, loop_vars, cmds, nreads>>

\* the pending command raises: nothing is sent, the exception propagates
CommandFails ==
    /\ link_up
    /\ CommandPending
    /\ link_up' = FALSE
    /\ pc' = "link_lost"
    /\ UNCHANGED <<variant, skip_blocks, transform, path_csv, feed, rotate_vars, calib_vars,
                   positive_seen, obstacles_csv, write_ok, telemetry_vars,
                   initial_position, offsets, args, loop_vars, cmds, nreads>>

NextLink == Next \/ CommandFails

SpecLink == InitPlaced /\ [][NextLink]_vars

(***************************************************************************)
(* The calibrator on its own: a grid point of the calibrated region is     *)
(* mapped to lighthouse coordinates and back.                              *)
(***************************************************************************)
\* the calibrated region is spanned by the corner cells of lighthouse_coords
GridMin == 2
GridMax == 15

\* grid coordinates are multiples of 1/GridResolution
GridResolution == 4

GridCoordinates ==
    { Rat(k, GridResolution) :
        k \in (GridMin * GridResolution)..(GridMax * GridResolution) }

Heights == {Dec2(15), Dec2(20), FromInt(1)}

InitRoundTrip ==
    /\ variant = "oran"
    /\ skip_blocks = FALSE
    /\ link_up = TRUE
    /\ transform = calibrator
    /\ path_csv = MissingFile
    /\ feed = {}
    /\ obstacles_csv = <<>>
    /\ write_ok = TRUE
    /\ estimated_position = ZeroPosition
    /\ shutter_num = 0
    /\ initial_position = ZeroPosition
    /\ offsets = <<Zero, Zero>>
    /\ pc = "to_vehicle"
    /\ args = <<>>
    /\ sequence = <<>>
    /\ base = ZeroPosition
    /\ i = 0
    /\ j = 0
    /\ target = ZeroPosition
    /\ black = 0
    /\ obstacle_detected = FALSE
    /\ cb_pc = "idle"
    /\ cb_data = NoData
    /\ cmds = <<>>
    /\ nreads = 0
    /\ positive_seen = FALSE
    /\ grid_point \in GridCoordinates \X GridCoordinates \X Heights
    /\ cf_point = NoPoint
    /\ grid_result = <<0, 0>>
    /\ rotated_sequence = <<>>
    /\ turns = <<>>

ToVehicle ==
    /\ pc = "to_vehicle"
    /\ cf_point' = grid_to_crazyflie_coords(grid_point[1], grid_point[2],
                                            grid_point[3])
    /\ pc' = "to_grid"
    /\ UNCHANGED <<variant, skip_blocks, link_up, transform, path_csv, feed, rotate_vars, grid_point, grid_result,
                   obstacles_csv, write_ok, telemetry_vars, initial_position,
                   offsets, args, loop_vars, cmds, nreads, positive_seen>>

ToGrid ==
    /\ pc = "to_grid"
    /\ ~CrazyflieToGridRaises(transform)
    /\ grid_result' = crazyflie_to_grid_coords(cf_point[1], cf_point[2])
    /\ pc' = "mapped"
    /\ UNCHANGED <<variant, skip_blocks, link_up, transform, path_csv, feed, rotate_vars, grid_point, cf_point,
                   obstacles_csv, write_ok, telemetry_vars, initial_position,
                   offsets, args, loop_vars, cmds, nreads, positive_seen>>

NextRoundTrip == ToVehicle \/ ToGrid

SpecRoundTrip == InitRoundTrip /\ [][NextRoundTrip]_vars

(***************************************************************************)
(* The calibrator under other measurements: lighthouse_coords is edited   *)
(* with the coordinates measured at the corners ("UPDATE these with        *)
(* cfclient measurements"); the calibrator is constructed from the table   *)
(* and used for one cell of the calibrated region.                         *)
(***************************************************************************)
\* measurements of the start corner's y and of the bottom-right corner's x;
\* the second value of each repeats the bottom-left corner's
StartYs == { Dec2(-18), Dec2(112) }
BottomRightXs == { Dec2(100), Dec2(-31) }

ReferenceTables ==
    { [lighthouse_table EXCEPT ![<<2, 15>>] = <<Dec2(-31), sy>>,
                               ![<<15, 2>>] = <<bx, Dec2(112)>>] :
        sy \in StartYs, bx \in BottomRightXs }

\* scale_x .. rotation as __init__ sets them before calculate_transformation
Uncalibrated ==
    [scale_x |-> Zero, scale_y |-> Zero, origin_x |-> Zero, origin_y |-> Zero,
     rotation |-> Zero]

CalibratedCells ==
    { <<FromInt(x), FromInt(y), FlightHeight>> : x, y \in GridMin..GridMax }

InitCalibrate ==
    /\ variant = "oran"
    /\ skip_blocks = FALSE
    /\ link_up = TRUE
    /\ transform = Uncalibrated
    /\ path_csv = MissingFile
    /\ feed = {}
    /\ obstacles_csv = <<>>
    /\ write_ok = TRUE
    /\ estimated_position = ZeroPosition
    /\ shutter_num = 0
    /\ initial_position = ZeroPosition
    /\ offsets = <<Zero, Zero>>
    /\ pc = "construct"
    /\ args = <<>>
    /\ sequence = <<>>
    /\ base = ZeroPosition
    /\ i = 0
    /\ j = 0
    /\ target = ZeroPosition
    /\ black = 0
    /\ obstacle_detected = FALSE
    /\ cb_pc = "idle"
    /\ cb_data = NoData
    /\ cmds = <<>>
    /\ nreads = 0
    /\ positive_seen = FALSE
    /\ grid_point \in CalibratedCells
    /\ cf_point = NoPoint
    /\ grid_result = <<0, 0>>
    /\ rotated_sequence = <<>>
    /\ turns = <<>>

\* calibrator = CrazyflieMapCalibrator(): __init__ calls
\* calculate_transformation, which has no check and returns normally
Construct ==
    /\ pc = "construct"
    /\ \E coords \in ReferenceTables : transform' = Calibration(coords)
    /\ pc' = "to_vehicle"
    /\ UNCHANGED <<variant, skip_blocks, link_up, path_csv, feed, rotate_vars, calib_vars,
                   obstacles_csv, write_ok, telemetry_vars, initial_position,
                   offsets, args, loop_vars, cmds, nreads, positive_seen>>

\* round(unrotated / scale) divides by zero: ZeroDivisionError
ToGridRaises ==
    /\ pc = "to_grid"
    /\ CrazyflieToGridRaises(transform)
    /\ pc' = "crashed"
    /\ UNCHANGED <<env_vars, obstacles_csv, write_ok, telemetry_vars,
                   initial_position, offsets, args, loop_vars, cmds, nreads,
                   positive_seen>>

NextCalibrate == Construct \/ ToVehicle \/ ToGrid \/ ToGridRaises

SpecCalibrate == InitCalibrate /\ [][NextCalibrate]_vars

(***************************************************************************)
(* The path readers on their own: one of the two readers, chosen by        *)
(* skip_blocks, is applied to a planner file.  Coordinates are small       *)
(* integers and halves, for which float arithmetic is exact.               *)
(***************************************************************************)
\* rows of the generic planner files
MaxPoints == 4

\* step lengths, in cells, of the straight runs of a path with one turn
MaxStep == 2

\* three cells along x and the cell beside the last
CompilePoints ==
    { <<FromInt(0), FromInt(0)>>, <<FromInt(1), FromInt(0)>>,
      <<FromInt(2), FromInt(0)>>, <<FromInt(2), FromInt(1)>> }

\* a row with one field, a row whose first field is not a number, a row
\* with a fractional coordinate
OddRows == { <<FromInt(9)>>, <<NaN_TEXT, FromInt(1)>>, <<Rat(1, 2), FromInt(1)>> }

GenericFiles ==
    { [exists |-> TRUE, rows |-> rows] :
        rows \in UNION { [1..n -> CompilePoints \cup OddRows] : n \in 0..MaxPoints } }

RECURSIVE SumTo(_, _)
SumTo(f, k) == IF k = 0 THEN 0 ELSE f[k] + SumTo(f, k - 1)

\* five points along d1 with steps m[1..4], then three more along d2 with
\* steps n[1..3]; the fifth point is the turn
TurnRows(d1, d2, m, n) ==
    [k \in 1..8 |->
        IF k <= 5
        THEN <<FromInt(d1[1] * SumTo(m, k - 1)), FromInt(d1[2] * SumTo(m, k - 1))>>
        ELSE <<FromInt(d1[1] * SumTo(m, 4) + d2[1] * SumTo(n, k - 5)),
               FromInt(d1[2] * SumTo(m, 4) + d2[2] * SumTo(n, k - 5))>>]

Directions == { <<1, 0>>, <<0, 1>> }

TurnFiles ==
    { [exists |-> TRUE, rows |-> TurnRows(d[1], d[2], m, n)] :
        d \in { dd \in Directions \X Directions : dd[1] # dd[2] },
        m \in [1..4 -> 1..MaxStep], n \in [1..3 -> 1..MaxStep] }

CompileFiles == {MissingFile} \cup GenericFiles \cup TurnFiles

InitCompile ==
    /\ variant \in Variants
    /\ skip_blocks \in BOOLEAN
    /\ link_up = TRUE
    /\ transform = calibrator
    /\ path_csv \in CompileFiles
    /\ feed = {}
    /\ obstacles_csv = <<>>
    /\ write_ok = TRUE
    /\ estimated_position = ZeroPosition
    /\ shutter_num = 0
    /\ initial_position = ZeroPosition
    /\ offsets = <<Zero, Zero>>
    /\ pc = "read_path"
    /\ args = <<>>
    /\ sequence = <<>>
    /\ base = ZeroPosition
    /\ i = 0
    /\ j = 0
    /\ target = ZeroPosition
    /\ black = 0
    /\ obstacle_detected = FALSE
    /\ cb_pc = "idle"
    /\ cb_data = NoData
    /\ cmds = <<>>
    /\ nreads = 0
    /\ positive_seen = FALSE
    /\ grid_point = NoPoint
    /\ cf_point = NoPoint
    /\ grid_result = <<0, 0>>
    /\ rotated_sequence = <<>>
    /\ turns = <<>>

\* skip_blocks is True: sequence = read_path_waypoints('path.csv')
ReadWaypoints ==
    /\ pc = "read_path"
    /\ skip_blocks
    /\ ~ReadPathWaypointsRaises(path_csv)
    /\ sequence' = read_path_waypoints(path_csv)
    /\ offsets' = OffsetsAfterWaypoints(path_csv, offsets)
    /\ pc' = "base_args"
    /\ UNCHANGED <<env_vars, positive_seen, obstacles_csv, write_ok, telemetry_vars,
                   initial_position, args, base, i, j, target, black,
                   obstacle_detected, cmds, nreads>>

\* the ValueError of float() leaves __main__: the program ends
ReadWaypointsRaises ==
    /\ pc = "read_path"
    /\ skip_blocks
    /\ ReadPathWaypointsRaises(path_csv)
    /\ pc' = "crashed"
    /\ UNCHANGED <<env_vars, positive_seen, obstacles_csv, write_ok, telemetry_vars,
                   initial_position, offsets, args, loop_vars, cmds, nreads>>

NextCompile == ReadPath \/ ReadPathRaises \/ ReadWaypoints \/ ReadWaypointsRaises

SpecCompile == InitCompile /\ [][NextCompile]_vars

(***************************************************************************)
(* The same program run several times: after run_sequence has returned     *)
(* and the with statement has closed the link, __main__ asks "Run the      *)
(* sequence again?".  With the answer yes the outer `while True` starts    *)
(* the next run; the globals and obstacles.csv are as the last run left    *)
(* them.  With the answer no the program exits from the state "returned".  *)
(***************************************************************************)
\* the prompt is answered with yes while the log is shorter than MaxLog rows
MaxLog == 2

\* a dark floor, the estimate at the origin: three planner cells, or the
\* planner file with a short row and a fractional cell
RunScenarios ==
    { [positions |-> {ZeroPosition}, levels |-> {1}, files |-> {PlannerPrefix(3)}],
      [positions |-> {ZeroPosition}, levels |-> {1}, files |-> {FractionalFile}] }

InitRuns == InitFor(RunScenarios)

\* response 'y': the next iteration of the outer loop; the frame of
\* run_sequence is gone and the history of commands starts again
RunAgain ==
    /\ pc = "returned"
    /\ Len(obstacles_csv) < MaxLog
    /\ pc' = "init_args"
    /\ args' = <<>>
    /\ sequence' = <<>>
    /\ base' = ZeroPosition
    /\ i' = 0
    /\ j' = 0
    /\ target' = ZeroPosition
    /\ black' = 0
    /\ obstacle_detected' = FALSE
    /\ cmds' = <<>>
    /\ nreads' = 0
    /\ positive_seen' = FALSE
    /\ UNCHANGED <<env_vars, obstacles_csv, write_ok, telemetry_vars,
                   initial_position, offsets>>

NextRuns == Next \/ RunAgain

SpecRuns == InitRuns /\ [][NextRuns]_vars

(***************************************************************************)
(* The same program when the first telemetry record has arrived during     *)
(* the sleep after simple_log_async: every sensor read of the run sees a   *)
(* delivered shutter value.                                                *)
(***************************************************************************)
\* the shutter reading is at the threshold or one above it over two planner
\* cells; a dark floor over the planner file with a fractional cell
WindowScenarios ==
    { [positions |-> {ZeroPosition}, levels |-> {0, 1}, files |-> {PlannerPrefix(2)}],
      [positions |-> {ZeroPosition}, levels |-> {1}, files |-> {FractionalFile}] }

InitWindow ==
    /\ variant \in Variants
    /\ skip_blocks = FALSE
    /\ link_up = TRUE
    /\ transform = calibrator
    /\ \E sc \in WindowScenarios :
          /\ path_csv \in sc.files
          /\ feed = Feed(variant, sc)
    /\ obstacles_csv = <<>>
    /\ write_ok = TRUE
    /\ \E data \in feed :
          /\ estimated_position = <<data.x, data.y, data.z>>
          /\ shutter_num = data.shutter
    /\ initial_position = ZeroPosition
    /\ offsets = <<Zero, Zero>>
    /\ pc = "init_args"
    /\ args = <<>>
    /\ sequence = <<>>
    /\ base = ZeroPosition
    /\ i = 0
    /\ j = 0
    /\ target = ZeroPosition
    /\ black = 0
    /\ obstacle_detected = FALSE
    /\ cb_pc = "idle"
    /\ cb_data = NoData
    /\ cmds = <<>>
    /\ nreads = 0
    /\ positive_seen = FALSE
    /\ grid_point = NoPoint
    /\ cf_point = NoPoint
    /\ grid_result = <<0, 0>>
    /\ rotated_sequence = <<>>
    /\ turns = <<>>

SpecWindow == InitWindow /\ [][Next]_vars

(***************************************************************************)
(* The rotations of a waypoint sequence on their own: rotate_sequence of   *)
(* pathfinder_group3.py, called with math.radians(0), and the quarter      *)
(* turns rotate_clock and rotate_counterclock, each call applied to what   *)
(* the call before it returned.                                            *)
(***************************************************************************)
MaxRotationPoints == 2
MaxTurns == 4

RotationCoordinates == {FromInt(0 - 1), Zero, FromInt(2)}

RotationPoints ==
    RotationCoordinates \X RotationCoordinates \X {FlightHeight, FromInt(1)}

RotationInputs ==
    UNION { [1..n -> RotationPoints] : n \in 0..MaxRotationPoints }

\* math.radians, for the only argument the program passes
radians(degrees) == CASE degrees = 0 -> Zero

\* faulty: every point is put at the flight height
rotate_sequence_flat(points, theta) ==
    LET cos_theta == Cos(theta)
        sin_theta == Sin(theta)
    IN  [k \in 1..Len(points) |->
            LET x == points[k][1]
                y == points[k][2]
            IN  <<RSub(RMul(x, cos_theta), RMul(y, sin_theta)),
                  RAdd(RMul(x, sin_theta), RMul(y, cos_theta)),
                  FlightHeight>>]

rotate_sequence(points, theta) ==
    LET cos_theta == Cos(theta)
        sin_theta == Sin(theta)
    IN  [k \in 1..Len(points) |->
            LET x == points[k][1]
                y == points[k][2]
                z == points[k][3]
            IN  <<RSub(RMul(x, cos_theta), RMul(y, sin_theta)),
                  RAdd(RMul(x, sin_theta), RMul(y, cos_theta)),
                  z>>]

\* new_x = y; new_y = -x
rotate_clock(points) ==
    [k \in 1..Len(points) |->
        <<points[k][2], RNeg(points[k][1]), points[k][3]>>]

\* faulty: turns the same way as rotate_clock
rotate_counterclock_clockwise(points) ==
    [k \in 1..Len(points) |->
        <<points[k][2], RNeg(points[k][1]), points[k][3]>>]

\* new_x = -y; new_y = x
rotate_counterclock(points) ==
    [k \in 1..Len(points) |->
        <<RNeg(points[k][2]), points[k][1], points[k][3]>>]

InitRotate ==
    /\ variant \in Variants
    /\ skip_blocks = FALSE
    /\ link_up = TRUE
    /\ transform = calibrator
    /\ path_csv = MissingFile
    /\ feed = {}
    /\ obstacles_csv = <<>>
    /\ write_ok = TRUE
    /\ estimated_position = ZeroPosition
    /\ shutter_num = 0
    /\ initial_position = ZeroPosition
    /\ offsets = <<Zero, Zero>>
    /\ pc = "rotate"
    /\ args = <<>>
    /\ sequence \in RotationInputs
    /\ base = ZeroPosition
    /\ i = 0
    /\ j = 0
    /\ target = ZeroPosition
    /\ black = 0
    /\ obstacle_detected = FALSE
    /\ cb_pc = "idle"
    /\ cb_data = NoData
    /\ cmds = <<>>
    /\ nreads = 0
    /\ positive_seen = FALSE
    /\ grid_point = NoPoint
    /\ cf_point = NoPoint
    /\ grid_result = <<0, 0>>
    /\ rotated_sequence = <<>>
    /\ turns = <<>>

\* the argument of the next call: the sequence, or what the last call returned
CurrentSequence == IF turns = <<>> THEN sequence ELSE rotated_sequence

\* pathfinder_group3.py: rotate_sequence(sequence, math.radians(0))
RotateSequence ==
    /\ pc = "rotate"
    /\ variant = "group3"
    /\ turns = <<>>
    /\ rotated_sequence' = rotate_sequence(sequence, radians(0))
    /\ turns' = <<"rotate_sequence">>
    /\ UNCHANGED <<variant, skip_blocks, link_up, transform, path_csv, feed,
                   calib_vars, obstacles_csv, write_ok, telemetry_vars,
                   initial_position, offsets, pc, args, loop_vars, cmds,
                   nreads, positive_seen>>

\* sequence = rotate_clock(sequence)
RotateClock ==
    /\ pc = "rotate"
    /\ variant = "oran"
    /\ Len(turns) < MaxTurns
    /\ rotated_sequence' = rotate_clock(CurrentSequence)
    /\ turns' = Append(turns, "rotate_clock")
    /\ UNCHANGED <<variant, skip_blocks, link_up, transform, path_csv, feed,
                   calib_vars, obstacles_csv, write_ok, telemetry_vars,
                   initial_position, offsets, pc, args, loop_vars, cmds,
                   nreads, positive_seen>>

\* sequence = rotate_counterclock(sequence)
RotateCounterclock ==
    /\ pc = "rotate"
    /\ variant = "oran"
    /\ Len(turns) < MaxTurns
    /\ rotated_sequence' = rotate_counterclock(CurrentSequence)
    /\ turns' = Append(turns, "rotate_counterclock")
    /\ UNCHANGED <<variant, skip_blocks, link_up, transform, path_csv, feed,
                   calib_vars, obstacles_csv, write_ok, telemetry_vars,
                   initial_position, offsets, pc, args, loop_vars, cmds,
                   nreads, positive_seen>>

NextRotate == RotateSequence \/ RotateClock \/ RotateCounterclock

SpecRotate == InitRotate /\ [][NextRotate]_vars

(***************************************************************************)
(* The program with either value of skip_blocks, over a radio link that    *)
(* can fail: with skip_blocks set __main__ passes the result of            *)
(* read_path_waypoints to run_sequence.                                    *)
(***************************************************************************)
\* a planner file whose only row starts with a text that is no number
TextFile == [exists |-> TRUE, rows |-> << <<NaN_TEXT, FromInt(1)>> >>]

\* a dark floor, the estimate at the origin; one or two planner cells, or
\* the file with the text
SkipScenarios ==
    { [positions |-> {ZeroPosition}, levels |-> {1},
       files |-> {PlannerPrefix(1), PlannerPrefix(2), TextFile}] }

InitSkip ==
    /\ variant \in Variants
    /\ skip_blocks \in BOOLEAN
    /\ link_up = TRUE
    /\ transform = calibrator
    /\ \E sc \in SkipScenarios :
          /\ path_csv \in sc.files
          /\ feed = Feed(variant, sc)
    /\ obstacles_csv = <<>>
    /\ write_ok = TRUE
    /\ estimated_position = ZeroPosition
    /\ shutter_num = 0
    /\ initial_position = ZeroPosition
    /\ offsets = <<Zero, Zero>>
    /\ pc = "init_args"
    /\ args = <<>>
    /\ sequence = <<>>
    /\ base = ZeroPosition
    /\ i = 0
    /\ j = 0
    /\ target = ZeroPosition
    /\ black = 0
    /\ obstacle_detected = FALSE
    /\ cb_pc = "idle"
    /\ cb_data = NoData
    /\ cmds = <<>>
    /\ nreads = 0
    /\ positive_seen = FALSE
    /\ grid_point = NoPoint
    /\ cf_point = NoPoint
    /\ grid_result = <<0, 0>>
    /\ rotated_sequence = <<>>
    /\ turns = <<>>

\* a step of the main thread, for either value of skip_blocks
MainStep == Main \/ ReadWaypoints \/ ReadWaypointsRaises \/ LoopNextRaises

NextSkip == Telemetry \/ MainStep \/ CommandFails

SpecSkip == InitSkip /\ [][NextSkip]_vars

(***************************************************************************)
(* Reading the history.                                                    *)
(***************************************************************************)
SetpointIndices == {k \in DOMAIN cmds : cmds[k].op = "setpoint"}

CountOp(op) == Cardinality({k \in DOMAIN cmds : cmds[k].op = op})

\* setpoints sent toward waypoint w (w = RETREAT: retreat setpoints)
CountWp(w) ==
    Cardinality({k \in DOMAIN cmds : cmds[k].op = "setpoint" /\ cmds[k].wp = w})

\* the planner point the current waypoint was compiled from
CurrentInputPoint == UsableRows(path_csv)[i + 1]

(***************************************************************************)
(* Properties.                                                             *)
(***************************************************************************)

\* C1: every run of run_sequence that returns has sent send_stop_setpoint
\* exactly once, followed by exactly one send_notify_setpoint_stop; the two
\* are the last commands of the run, and nothing but the notification is
\* ever sent after the stop setpoint.
C1_StopThenNotifyEndRun ==
    /\ \A k \in DOMAIN cmds :
          cmds[k].op = "stop" =>
              /\ k >= Len(cmds) - 1
              /\ k = Len(cmds) - 1 => cmds[Len(cmds)].op = "notify"
    /\ pc = "returned" =>
          /\ Len(cmds) >= 2
          /\ cmds[Len(cmds) - 1].op = "stop"
          /\ cmds[Len(cmds)].op = "notify"
          /\ CountOp("stop") = 1
          /\ CountOp("notify") = 1

\* a run that stopped on an obstacle has returned
C1_Witness ==
    /\ pc = "returned"
    /\ obstacle_detected
    /\ CountWp(RETREAT) = 30
    /\ cmds[Len(cmds)].op = "notify"

\* C2: while the sequencer is at waypoint index 0 it never retreats, never
\* sets the stop flag and never appends an obstacle record, whatever the
\* window counted; and a run that returns has flown to waypoint 1 whenever
\* the sequence has one.
C2_FirstWaypointExempt ==
    /\ i = 0 =>
          /\ pc \notin {"retreat", "update_csv"}
          /\ ~obstacle_detected
          /\ CountWp(RETREAT) = 0
          /\ obstacles_csv = <<>>
    /\ (pc = "returned" /\ Len(sequence) >= 2) => CountWp(1) = 10

\* all 50 samples at waypoint 0 were positive (black keeps the count until
\* the next window starts) and the first setpoint toward waypoint 1 is sent
C2_Witness ==
    /\ i = 1
    /\ pc = "setpoint"
    /\ j = 1
    /\ black = 50
    /\ CountWp(1) = 1
    /\ CountWp(RETREAT) = 0
    /\ obstacles_csv = <<>>

C4_RecordBeforeFlag ==
    /\ \A k \in SetpointIndices :
          cmds[k].wp = RETREAT =>
              <<cmds[k].x, cmds[k].y, cmds[k].z>> =
                  <<initial_position[1], initial_position[2],
                    RetreatHeight(variant)>>
    /\ Len(obstacles_csv) > 0 => CountWp(RETREAT) = 30
    /\ obstacle_detected => Len(obstacles_csv) = 1

\* C4, amended: on a positive verdict at an index > 0 the sequencer sends
\* exactly 30 setpoints, all to (initial_position x, initial_position y,
\* retreat height), then sets obstacle_detected, then calls update_csv once,
\* which appends one record unless the write fails; no record is appended
\* before the 30 retreat setpoints and the flag.
C4_RetreatFlagRecord ==
    /\ \A k \in SetpointIndices :
          cmds[k].wp = RETREAT =>
              /\ <<cmds[k].x, cmds[k].y, cmds[k].z>> =
                    <<initial_position[1], initial_position[2],
                      RetreatHeight(variant)>>
              /\ positive_seen
              /\ i > 0
    /\ pc = "retreat" => (CountWp(RETREAT) = j /\ ~obstacle_detected)
    /\ obstacle_detected => CountWp(RETREAT) = 30
    /\ ~obstacle_detected => obstacles_csv = <<>>
    /\ pc = "update_csv" => (obstacle_detected /\ obstacles_csv = <<>>)
    /\ (obstacle_detected /\ pc # "update_csv") =>
          Len(obstacles_csv) = IF write_ok THEN 1 ELSE 0

\* the retreat is over, the flag is set and the record is in the log
C4_Witness ==
    /\ pc = "break"
    /\ obstacle_detected
    /\ CountWp(RETREAT) = 30
    /\ Len(obstacles_csv) = 1

\* C5: once a window at an index i > 0 was positive the run only retreats,
\* logs, stops and returns with the stop flag set (Aborted): no setpoint
\* toward a waypoint after i, no further sensor read, at most one obstacle
\* record, and the main thread can always take its next step until it
\* returns.
C5_DetectionAborts ==
    /\ Len(obstacles_csv) <= 1
    /\ positive_seen =>
          /\ i > 0
          /\ pc \in {"retreat", "update_csv", "break", "stop", "notify",
                     "returned"}
          /\ \A k \in SetpointIndices : cmds[k].wp <= i
          /\ nreads = 50 * (i + 1)
          /\ pc = "returned" => obstacle_detected
          /\ pc # "returned" => ENABLED Main

\* detection at the second of three waypoints, run returned
C5_Witness ==
    /\ positive_seen
    /\ pc = "returned"
    /\ obstacle_detected
    /\ i = 1
    /\ Len(sequence) = 3
    /\ CountWp(2) = 0

\* C6: a run that returns without a positive window at an index > 0 ends
\* Completed: stop flag clear, 10 setpoints sent toward every waypoint, no
\* retreat setpoint, no obstacle record; a missing file or a file without
\* usable rows gives the empty sequence, for which no setpoint is sent.
C6_NoDetectionCompletes ==
    /\ (pc = "returned" /\ ~positive_seen) =>
          /\ ~obstacle_detected
          /\ \A w \in 0..(Len(sequence) - 1) : CountWp(w) = 10
          /\ CountWp(RETREAT) = 0
          /\ obstacles_csv = <<>>
          /\ i = Len(sequence)
    /\ (pc = "returned" /\ (~path_csv.exists \/ UsableRows(path_csv) = <<>>)) =>
          /\ sequence = <<>>
          /\ ~positive_seen
          /\ CountOp("setpoint") = 0
          /\ Len(cmds) = 3

\* three waypoints flown, the last window above the threshold only 39 times
C6_Witness ==
    /\ variant = "group3"
    /\ pc = "returned"
    /\ ~positive_seen
    /\ Len(sequence) = 3
    /\ CountOp("setpoint") = 30
    /\ black = 39

\* C7: every triple of position components the main thread reads together
\* (the arguments of set_initial_position and base_x, base_y, base_z of
\* run_sequence) was written by one telemetry record, or is the initial
\* content of the cell.
DeliveredPositions == {ZeroPosition} \cup {<<d.x, d.y, d.z>> : d \in feed}

C7_ConsistentSnapshot ==
    /\ Len(args) = 3 => args \in DeliveredPositions
    /\ initial_position \in DeliveredPositions
    /\ base \in DeliveredPositions

NearestInteger(r, q) == 2 * AbsInt(r * q[2] - q[1]) <= q[2]

\* C9: for every grid point of the calibrated region and every height,
\* crazyflie_to_grid_coords of the x, y of grid_to_crazyflie_coords gives
\* the grid point rounded to the nearest integer cell.
C9_RoundTrip ==
    pc = "mapped" =>
        /\ NearestInteger(grid_result[1], grid_point[1])
        /\ NearestInteger(grid_result[2], grid_point[2])

\* (6.75, 2.25) at height 0.2 comes back as cell (7, 2)
C9_Witness ==
    /\ pc = "mapped"
    /\ grid_point = <<Rat(27, 4), Rat(9, 4), Dec2(20)>>
    /\ cf_point[3] = Dec2(20)
    /\ grid_result = <<7, 2>>

\* C10: waypoints are flown one after the other in sequence order: the
\* setpoints toward waypoint w are sent after exactly w complete windows of
\* 50 reads, exactly 10 of them before the first read of w's window, and
\* every waypoint before the current one got its 10 setpoints: none is
\* skipped or revisited (the command before a setpoint toward w is the arm
\* command or a setpoint toward w or w - 1).
C10_SequentialWaypoints ==
    /\ \A k \in SetpointIndices :
          cmds[k].wp # RETREAT =>
              /\ cmds[k].wp <= i
              /\ cmds[k].reads = 50 * cmds[k].wp
              /\ cmds[k - 1].op = "arm" \/ cmds[k - 1].wp \in {cmds[k].wp, cmds[k].wp - 1}
    /\ \A w \in 0..(i - 1) : CountWp(w) = 10
    /\ pc = "setpoint" => CountWp(i) = j
    /\ pc = "sample" => (CountWp(i) = 10 /\ nreads = 50 * i + j)
    /\ pc \in {"retreat", "update_csv", "break"} =>
          (CountWp(i) = 10 /\ nreads = 50 * (i + 1))

\* the first setpoint toward the third waypoint, after two complete windows
C10_Witness ==
    /\ pc = "setpoint"
    /\ i = 2
    /\ j = 1
    /\ nreads = 100
    /\ CountWp(1) = 10
    /\ CountWp(2) = 1

\* what reached the vehicle: the commands without their history tags
CommandsSent ==
    [k \in 1..Len(cmds) |-> <<cmds[k].op, cmds[k].x, cmds[k].y, cmds[k].z>>]

\* the commands of a run that detects an obstacle at waypoint index n
AbortCommands(n) ==
    [k \in 1..(10 * (n + 1) + 33) |->
        IF k = 1 THEN <<"arm", Zero, Zero, Zero>>
        ELSE IF k <= 10 * (n + 1) + 1
        THEN LET w == (k - 2) \div 10
             IN  <<"setpoint", RAdd(sequence[w + 1][1], base[1]),
                   RAdd(sequence[w + 1][2], base[2]),
                   RAdd(sequence[w + 1][3], base[3])>>
        ELSE IF k <= 10 * (n + 1) + 31
        THEN <<"setpoint", initial_position[1], initial_position[2],
               RetreatHeight(variant)>>
        ELSE IF k = 10 * (n + 1) + 32 THEN <<"stop", Zero, Zero, Zero>>
        ELSE <<"notify", Zero, Zero, Zero>>]

\* C11: when the append of update_csv fails the run goes on as when it
\* succeeds: obstacles.csv is left as it was, the stop flag is set, no
\* setpoint toward a later waypoint is sent, the run sends the stop setpoint
\* and the notification and returns with the flag set; the commands of a
\* returned run with a detection at waypoint i are the same list whether
\* the write failed or not.
C11_WriteFailureNonFatal ==
    /\ (~write_ok /\ pc # "update_csv") =>
          /\ obstacles_csv = <<>>
          /\ obstacle_detected
          /\ pc \in {"break", "stop", "notify", "returned"}
          /\ \A k \in SetpointIndices : cmds[k].wp <= i
          /\ ENABLED Main \/ pc = "returned"
    /\ (pc = "returned" /\ obstacle_detected) => CommandsSent = AbortCommands(i)

\* a detection at the second waypoint whose record could not be written
C11_Witness ==
    /\ pc = "returned"
    /\ obstacle_detected
    /\ ~write_ok
    /\ obstacles_csv = <<>>
    /\ i = 1
    /\ CountWp(RETREAT) = 30
    /\ cmds[Len(cmds)].op = "notify"

\* the field is the text of a number
Numeric(f) == f[2] # 0

\* rows with at least two fields of which the first two are numbers
ValidRows(file) ==
    SelectSeq(file.rows,
              LAMBDA row : Len(row) >= 2 /\ Numeric(row[1]) /\ Numeric(row[2]))

\* C12: read_path_waypoints and read_all_blocks never propagate an
\* exception, whatever the planner file holds; a missing file or a file
\* without valid rows gives the empty sequence, and rows with fewer than 2
\* numeric fields are skipped while the other rows are compiled.
C12_ReadersNeverRaise ==
    /\ pc # "crashed"
    /\ pc = "base_args" =>
          /\ (~path_csv.exists \/ ValidRows(path_csv) = <<>>) => sequence = <<>>
          /\ ~skip_blocks => Len(sequence) = Len(ValidRows(path_csv))

\* the points read from the planner file, in file order
InputPoints == IF path_csv.exists THEN UsableRows(path_csv) ELSE <<>>

\* the vector from point a to point b
Step(a, b) == <<RSub(b[1], a[1]), RSub(b[2], a[2])>>

\* indices of the input points corner simplification is to keep
KeptIndices ==
    { k \in 1..Len(InputPoints) :
        \/ k = 1
        \/ k = Len(InputPoints)
        \/ Step(InputPoints[k - 1], InputPoints[k])
              # Step(InputPoints[k], InputPoints[k + 1]) }

\* position of the kept index k among the kept indices
Rank(k) == Cardinality({m \in KeptIndices : m <= k})

\* the waypoint an input point is compiled to by offset normalisation
Normalized(point) ==
    <<RDiv(RSub(point[1], InputPoints[1][1]), FromInt(10)),
      RNeg(RDiv(RSub(point[2], InputPoints[1][2]), FromInt(10))),
      Dec2(15)>>

Cross(u, v) == RSub(RMul(u[1], v[2]), RMul(u[2], v[1]))

\* the input points a..b lie on one line
ColinearRun(a, b) ==
    \A k \in (a + 1)..(b - 1) :
        Cross(Step(InputPoints[k - 1], InputPoints[k]),
              Step(InputPoints[k], InputPoints[k + 1])) = Zero

\* the input is 5 colinear points, a turn at the fifth, 3 more colinear
\* points
TurnPath ==
    /\ Len(InputPoints) = 8
    /\ ColinearRun(1, 5)
    /\ ColinearRun(5, 8)
    /\ Cross(Step(InputPoints[4], InputPoints[5]),
             Step(InputPoints[5], InputPoints[6])) # Zero

\* the first, the turn and the last point of a path of 8 points
TurnWaypoints ==
    <<Normalized(InputPoints[1]), Normalized(InputPoints[5]),
      Normalized(InputPoints[8])>>

EqualSteps(a, b) ==
    \A k \in (a + 1)..(b - 1) :
        Step(InputPoints[k - 1], InputPoints[k])
          = Step(InputPoints[k], InputPoints[k + 1])

RowOf(waypoint) ==
    IF variant = "group3"
    THEN <<RAdd(RMul(waypoint[1], FromInt(10)), InputPoints[1][1]),
           RAdd(RMul(RNeg(waypoint[2]), FromInt(10)), InputPoints[1][2])>>
    ELSE LET cell == crazyflie_to_grid_coords(waypoint[1], waypoint[2])
         IN  <<FromInt(cell[1]), FromInt(cell[2])>>

\* C15: read_all_blocks returns one waypoint for every usable row, in file
\* order: as many waypoints as usable rows, the k-th waypoint is the image
\* of the k-th usable row (it maps back to that row) at the flight height;
\* nothing is dropped, duplicated or reordered.
C15_FullResolution ==
    (pc = "base_args" /\ ~skip_blocks) =>
        /\ Len(sequence) = Len(InputPoints)
        /\ \A k \in 1..Len(InputPoints) :
              /\ RowOf(sequence[k]) = <<InputPoints[k][1], InputPoints[k][2]>>
              /\ sequence[k][3] = Dec2(15)

\* four rows, one of them too short; the first and third usable rows are
\* the same cell and both are compiled
C15_Witness ==
    /\ pc = "base_args"
    /\ ~skip_blocks
    /\ variant = "oran"
    /\ Len(path_csv.rows) = 4
    /\ Len(sequence) = 3
    /\ sequence[1] = sequence[3]
    /\ sequence[1] # sequence[2]

\* C16: in both modes and for every file, every element of the compiled
\* sequence has 3 components, its z is the flight height, and where the
\* offset normalisation is used its x, y are relative to the first raw
\* point (the first waypoint is at 0, 0).
C16_ThreeComponentWaypoints ==
    pc = "base_args" =>
        \A k \in 1..Len(sequence) :
            /\ Len(sequence[k]) = 3
            /\ sequence[k][3] = Dec2(15)
            /\ (variant = "group3" \/ skip_blocks) =>
                  /\ sequence[1][1] = Zero
                  /\ sequence[1][2] = Zero
                  /\ \E n \in 1..Len(InputPoints) :
                        sequence[k] = Normalized(InputPoints[n])

\* C17: a calibration whose reference measurements are degenerate along an
\* axis, or whose scale_x or scale_y is zero, is rejected with a
\* calibration error when the transform is constructed: no transform with
\* a zero scale factor is used by grid_to_crazyflie_coords or
\* crazyflie_to_grid_coords, and no use of the transform fails later.
C17_DegenerateCalibrationRejected ==
    /\ pc \in {"to_grid", "mapped", "crashed"} =>
          /\ transform.scale_x # Zero
          /\ transform.scale_y # Zero
    /\ pc # "crashed"

\* C18: when a command to the vehicle fails (the link is lost) in any state
\* of run_sequence, the run ends at once: the failing call sends nothing
\* and appends nothing, and from then on no command of any kind is issued
\* (so no retreat setpoint either), no obstacle record is appended, the
\* stop flag does not change and the main thread takes no further step.
C18_LinkFailureEndsRun ==
    [][((link_up /\ ~link_up') =>
           (pc' = "link_lost" /\ cmds' = cmds /\ obstacles_csv' = obstacles_csv))
       /\ (~link_up =>
              (pc = "link_lost"
               /\ UNCHANGED <<pc, cmds, obstacles_csv, obstacle_detected, i, j>>))]_vars

\* the link fails at the first retreat setpoint after a positive window:
\* no retreat setpoint was sent and no record was appended
C18_Witness ==
    /\ ~link_up
    /\ pc = "link_lost"
    /\ positive_seen
    /\ i = 1
    /\ CountWp(RETREAT) = 0
    /\ obstacles_csv = <<>>
    /\ cb_pc # "idle"

\* the compiled waypoint n, translated by base_x, base_y, base_z
Translated(n) ==
    <<RAdd(sequence[n][1], base[1]), RAdd(sequence[n][2], base[2]),
      RAdd(sequence[n][3], base[3])>>

\* the step sends a position setpoint
SetpointSent ==
    /\ Len(cmds') = Len(cmds) + 1
    /\ cmds'[Len(cmds')].op = "setpoint"

\* the target of the command sent last
LastTarget == <<cmds[Len(cmds)].x, cmds[Len(cmds)].y, cmds[Len(cmds)].z>>

\* C19, as claimed: the target of every setpoint sent by run_sequence comes
\* from the compiled waypoint sequence (an element of it, translated by the
\* base position of the call).
C19_TargetsFromCompiledSequence ==
    [][SetpointSent =>
          \E n \in 1..Len(sequence) : LastTarget' = Translated(n)]_vars

\* C19, amended: the target of every setpoint toward a waypoint is the
\* current element of the compiled sequence translated by base_x, base_y,
\* base_z; the only other setpoints are the retreat setpoints after a
\* detection, whose target is (initial_position[0], initial_position[1],
\* retreat height) and does not come from the compiled sequence.
C19_TargetsFromSequenceOrInitialPosition ==
    [][SetpointSent =>
          IF pc = "retreat"
          THEN /\ positive_seen
               /\ LastTarget' = <<initial_position[1], initial_position[2],
                                  RetreatHeight(variant)>>
          ELSE /\ pc = "setpoint"
               /\ i \in 0..(Len(sequence) - 1)
               /\ LastTarget' = Translated(i + 1)]_vars

\* the estimate moved from the origin to x = 1 between the two reads: the
\* waypoints are flown from the base (1, 0, 0), the retreat goes to (0, 0)
C19_Witness ==
    /\ pc = "returned"
    /\ initial_position = ZeroPosition
    /\ base = PositionC
    /\ i = 1
    /\ CountWp(RETREAT) = 30
    /\ cmds[2].x = FromInt(1)
    /\ cmds[22].x = Zero
    /\ variant = "group3"

\* C20: estimated_position and shutter_num are written by log_stab_callback
\* only: every step that changes one of them is a step of the callback, in
\* which the main thread (the path reader, run_sequence, over_obstacle,
\* update_csv) does not move; the main thread only reads them.
C20_TelemetryOnlyWriter ==
    [][(estimated_position' # estimated_position \/ shutter_num' # shutter_num) =>
          /\ cb_pc # cb_pc'
          /\ ~Main
          /\ UNCHANGED <<pc, args, loop_vars, cmds, nreads, obstacles_csv,
                         write_ok, initial_position, offsets>>]_vars

\* the run has read the estimate twice and returned; the cell holds the
\* record the callback wrote last
C20_Witness ==
    /\ pc = "returned"
    /\ initial_position = PositionA
    /\ base = PositionB
    /\ estimated_position = PositionB
    /\ shutter_num = COLOUR_THRESHOLD(variant) + 1
    /\ cb_pc = "idle"

\* s is an initial part of t
IsPrefix(s, t) == Len(s) <= Len(t) /\ SubSeq(t, 1, Len(s)) = s

\* the step is a call of update_csv
UpdateCsvStep == pc = "update_csv" /\ pc' # "update_csv"

\* C21, as claimed: over any number of runs every step leaves the old
\* content of obstacles.csv as a prefix of the new content, only update_csv
\* changes it, and every call of update_csv (one per detection) extends it
\* by exactly one row of two integers.
C21_AppendOnlyOneRowPerDetection ==
    [][ /\ IsPrefix(obstacles_csv, obstacles_csv')
        /\ (~UpdateCsvStep) => (obstacles_csv' = obstacles_csv)
        /\ UpdateCsvStep =>
              (/\ Len(obstacles_csv') = Len(obstacles_csv) + 1
               /\ obstacles_csv'[Len(obstacles_csv')] \in Int \X Int) ]_vars

\* C21, amended: over any number of runs every step leaves the old content
\* of obstacles.csv as a prefix of the new content, only update_csv changes
\* it, and a call of update_csv extends it by exactly one row of two
\* integers when the write succeeds and leaves it as it was when the write
\* fails.
C21_AppendOnly ==
    [][ /\ IsPrefix(obstacles_csv, obstacles_csv')
        /\ (~UpdateCsvStep) => (obstacles_csv' = obstacles_csv)
        /\ (UpdateCsvStep /\ write_ok') =>
              (/\ Len(obstacles_csv') = Len(obstacles_csv) + 1
               /\ obstacles_csv'[Len(obstacles_csv')] \in Int \X Int)
        /\ (UpdateCsvStep /\ ~write_ok') =>
              (obstacles_csv' = obstacles_csv) ]_vars

\* a later run has appended (8, 2) after the (15, 2) of an earlier run
C21_Witness ==
    /\ pc = "returned"
    /\ obstacle_detected
    /\ write_ok
    /\ i = 1
    /\ obstacles_csv = << <<15, 2>>, <<8, 2>> >>

\* the step is one sensor read of the sampling window
SensorRead == nreads' # nreads

\* C22: a sampling window starts with the count 0; each of its sensor reads
\* adds one to the count iff the value read is strictly greater than the
\* threshold (a value equal to the threshold adds nothing) and nothing else
\* changes the count; the verdict is taken after exactly 50 reads of the
\* window, from that count alone, so the count never exceeds the number of
\* reads of the current window.
C22_WindowCountsStrictlyAbove ==
    [][ /\ (pc # "sample" /\ pc' = "sample") => (black' = 0 /\ j' = 0)
        /\ SensorRead =>
              (/\ pc = "sample" /\ pc' = "sample"
               /\ nreads' = nreads + 1
               /\ j' = j + 1
               /\ black' = black +
                     (IF shutter_num > COLOUR_THRESHOLD(variant) THEN 1 ELSE 0))
        /\ (pc = "sample" /\ ~SensorRead) => (black' = black)
        /\ (pc = "sample" /\ pc' # "sample") =>
              (/\ j = 50
               /\ nreads = 50 * (i + 1)
               /\ (pc' = "retreat") <=>
                     (black >= DebounceCount(variant) /\ i # 0))
        /\ pc = "sample" => (black <= j /\ nreads = 50 * i + j) ]_vars

\* every read of the run saw a delivered value, at the threshold or one
\* above it: a complete window at the second waypoint all of whose 50 reads
\* were equal to the threshold has the count 0
C22_Witness ==
    /\ pc = "sample"
    /\ i = 1
    /\ j = 50
    /\ nreads = 100
    /\ black = 0
    /\ shutter_num = COLOUR_THRESHOLD(variant)
    /\ \A d \in feed : d.shutter >= COLOUR_THRESHOLD(variant)

\* C23: the arming request is the first command of a run and is sent only
\* once: a command sent is the arming request iff no command was sent
\* before it; every sensor read comes after it; a run that returns has sent
\* it.
C23_ArmOnceFirst ==
    [][ /\ Len(cmds') > Len(cmds) =>
              (/\ Len(cmds') = Len(cmds) + 1
               /\ (cmds'[Len(cmds')].op = "arm") <=> (cmds = <<>>))
        /\ SensorRead => (cmds # <<>> /\ cmds[1].op = "arm")
        /\ pc' = "returned" => (cmds' # <<>> /\ cmds'[1].op = "arm") ]_vars

\* three waypoints flown and the run returned: one arming request, sent
\* before the 30 setpoints, the 150 reads and the stop setpoint
C23_Witness ==
    /\ pc = "returned"
    /\ cmds[1].op = "arm"
    /\ CountOp("arm") = 1
    /\ CountOp("setpoint") = 30
    /\ CountOp("stop") = 1
    /\ nreads = 150

\* C24: a call of rotate_sequence leaves its argument as it was and returns
\* a sequence of the same length whose k-th element is a 3-component point
\* with the height of the k-th point of the argument; for the angle 0 that
\* element is the k-th point itself.
C24_RotationKeepsHeights ==
    [][ (turns' = <<"rotate_sequence">>) =>
            (/\ sequence' = sequence
             /\ Len(rotated_sequence') = Len(sequence)
             /\ \A k \in 1..Len(sequence) :
                   /\ Len(rotated_sequence'[k]) = 3
                   /\ rotated_sequence'[k][3] = sequence[k][3]
                   /\ rotated_sequence'[k] = sequence[k]) ]_vars

\* two points at different heights, rotated
C24_Witness ==
    /\ turns = <<"rotate_sequence">>
    /\ sequence = << <<FromInt(2), FromInt(0 - 1), FromInt(1)>>,
                     <<FromInt(0 - 1), Zero, FlightHeight>> >>
    /\ rotated_sequence = sequence

\* quarter turns clockwise that the calls so far add up to, modulo 4
NetTurn ==
    (Cardinality({k \in DOMAIN turns : turns[k] = "rotate_clock"})
       + 3 * Cardinality({k \in DOMAIN turns : turns[k] = "rotate_counterclock"}))
    % 4

\* C27: after any chain of rotate_clock and rotate_counterclock calls the
\* result has the length of the sequence the chain started from and its
\* k-th point has the height of the k-th point of that sequence; the chain
\* gives back the sequence itself when it is rotate_clock then
\* rotate_counterclock, rotate_counterclock then rotate_clock, four times
\* rotate_clock, or any chain whose quarter turns cancel.
C27_QuarterTurnsInverse ==
    (turns # <<>> /\ turns[1] # "rotate_sequence") =>
        /\ Len(rotated_sequence) = Len(sequence)
        /\ \A k \in 1..Len(sequence) :
              /\ Len(rotated_sequence[k]) = 3
              /\ rotated_sequence[k][3] = sequence[k][3]
        /\ turns = <<"rotate_clock", "rotate_counterclock">> =>
              rotated_sequence = sequence
        /\ turns = <<"rotate_counterclock", "rotate_clock">> =>
              rotated_sequence = sequence
        /\ turns = <<"rotate_clock", "rotate_clock", "rotate_clock",
                     "rotate_clock">> => rotated_sequence = sequence
        /\ NetTurn = 0 => rotated_sequence = sequence

\* four clockwise quarter turns of two points at different heights
C27_Witness ==
    /\ turns = <<"rotate_clock", "rotate_clock", "rotate_clock", "rotate_clock">>
    /\ sequence = << <<FromInt(2), FromInt(0 - 1), FromInt(1)>>,
                     <<FromInt(0 - 1), Zero, FlightHeight>> >>
    /\ rotated_sequence = sequence

\* the main thread is inside run_sequence
InRun ==
    pc \in {"arm", "loop", "setpoint", "sample", "retreat", "update_csv",
            "break", "stop", "notify"}

\* the most steps one waypoint takes: the setpoints, the reads, the retreat
\* setpoints and the six statements around them
StepsPerWaypoint == SETPOINT_REPEATS + WINDOW_SIZE + RETREAT_REPEATS + 6

\* steps the loop can still take once it stands before waypoint k
StepsFrom(k) == StepsPerWaypoint * (Len(sequence) - k) + 3

\* an upper bound of the steps the main thread can still take in run_sequence
StepsLeft ==
    CASE pc = "arm" -> StepsFrom(0) + 1
      [] pc = "loop" -> StepsFrom(i)
      [] pc = "setpoint" -> (StepsPerWaypoint - 1 - j) + StepsFrom(i + 1)
      [] pc = "sample" -> (WINDOW_SIZE - j) + RETREAT_REPEATS + 4 + StepsFrom(i + 1)
      [] pc = "retreat" -> (RETREAT_REPEATS - j) + 3 + StepsFrom(i + 1)
      [] pc = "update_csv" -> 2 + StepsFrom(i + 1)
      [] pc = "break" -> 1 + StepsFrom(i + 1)
      [] pc = "stop" -> 2
      [] pc = "notify" -> 1
      [] OTHER -> 0

\* C25: run_sequence terminates in Completed, Aborted or a fatal link
\* failure, whatever the planner file, the sensor readings and the
\* interleaving with the telemetry callback: inside run_sequence the main
\* thread can always take a step, each of its steps lowers a bound of the
\* steps left that is never negative, it leaves run_sequence only by
\* returning (all waypoints flown and the flag clear, or the flag set) or by
\* the exception of a failed command, and at every moment it has sent at
\* most 10 * n + 30 position setpoints for a sequence of n waypoints.
C25_TerminatesWithinBudget ==
    [][ /\ InRun => (ENABLED MainStep /\ StepsLeft > 0)
        /\ (InRun /\ UNCHANGED telemetry_vars) =>
              (/\ StepsLeft' < StepsLeft
               /\ StepsLeft' >= 0
               /\ pc' \in {"returned", "link_lost"} \/ InRun')
        /\ pc' = "returned" =>
              (\/ obstacle_detected'
               \/ ~obstacle_detected' /\ i' = Len(sequence'))
        /\ pc' = "link_lost" => ~link_up'
        /\ CountOp("setpoint")' <= 10 * Len(sequence') + 30 ]_vars

\* C26: base_x, base_y, base_z are the values evaluated at the call of
\* run_sequence and stay as they are until the run ends; every setpoint
\* toward waypoint i has the target sequence[i] + base, the same for all 10
\* setpoints of the waypoint; every retreat setpoint has the target
\* (initial_position[0], initial_position[1], retreat height), the same for
\* all 30; a step that changes estimated_position during the run sends
\* nothing and changes neither the base, nor initial_position, nor the
\* sequence, nor the target of the current waypoint.
C26_BaseFixedDuringRun ==
    [][ /\ (pc = "base_args" /\ pc' = "arm") => (base' = args)
        /\ InRun =>
              (/\ base' = base
               /\ initial_position' = initial_position
               /\ sequence' = sequence)
        /\ (SetpointSent /\ pc = "setpoint") =>
              (/\ LastTarget' = Translated(i + 1)
               /\ j > 0 => LastTarget' = LastTarget)
        /\ (SetpointSent /\ pc = "retreat") =>
              (/\ LastTarget' = <<initial_position[1], initial_position[2],
                                  RetreatHeight(variant)>>
               /\ j > 0 => LastTarget' = LastTarget)
        /\ (InRun /\ estimated_position' # estimated_position) =>
              (target' = target /\ cmds' = cmds) ]_vars

\* the run was called with the base (0, 0, 0); the estimate has moved to
\* x = 1 since; the tenth setpoint toward the second waypoint has the
\* target of the first nine, the waypoint itself
C26_Witness ==
    /\ pc = "setpoint"
    /\ i = 1
    /\ j = 10
    /\ base = ZeroPosition
    /\ estimated_position = PositionC
    /\ CountWp(1) = 10
    /\ \A k \in 12..21 :
          <<cmds[k].x, cmds[k].y, cmds[k].z>> = sequence[2]

=============================================================================
